---- MODULE Spec2Model ----
(***************************************************************************)
(* The Strong export client: login, the two paginated fetches, the join of *)
(* Effect.all, transformLogs and parseSet, as state machines over the      *)
(* responses a backend can send; and the export command's date-range       *)
(* filter and toCSV.                                                       *)
(***************************************************************************)
EXTENDS Integers, Sequences, FiniteSets, TLC

VARIABLES
    pc,            \* position of exportWorkouts: idle, login, fetching, done, failed,
                   \* died (a defect thrown while transforming)
    token,         \* AuthToken returned by login, or NullV
    requests,      \* every request issued so far, in issue order
    responses,     \* every response received so far, each with its request
    mState,        \* fetchMeasurements: pending, global, user, ok, failed
    mInflight,     \* a measurement page request awaits its response
    page,          \* fetchFromEndpoint's page counter
    map,           \* the measurement Map: id -> name
    lState,        \* fetchWorkoutLogs: pending, running, ok, failed
    lInflight,     \* a log page request awaits its response
    continuation,  \* fetchWorkoutLogs' continuation token
    logs,          \* fetchWorkoutLogs' accumulated logs
    error,         \* the error exportWorkouts failed with, or NullV
    result,        \* the ExportData exportWorkouts returned, or NullV
    transformed,   \* transformLogs has been invoked by exportWorkouts
    tLogs,         \* transformLogs on logs: the input logs
    tOut,          \* transformLogs on logs: the call's outcome
    gGroups,       \* transformLogs on groups: the closed cell-set-groups of the log
    gSets,         \* transformLogs on groups: cell-sets of the group being built
    gOut,          \* transformLogs on groups: the call's outcome
    pCells,        \* parseSet: cells of the cell-set being built
    pOut,          \* parseSet: the call's outcome, alone and inside transformLogs
    cLogs,         \* export command: the logs exportWorkouts transforms
    cOut,          \* export command: the values it computed
    vCompleted,    \* toCSV: completed sets of the exercise being built
    vSkipped,      \* toCSV: skipped sets of the exercise being built
    vExercises,    \* toCSV: closed exercises of the workout being built
    vWorkouts,     \* toCSV: the closed workouts
    vOut           \* toCSV: the call's outcome

pipeVars == <<pc, token, requests, responses, mState, mInflight, page, map,
              lState, lInflight, continuation, logs, error, result, transformed>>
tVars == <<tLogs, tOut>>
gVars == <<gGroups, gSets, gOut>>
pVars == <<pCells, pOut>>
cVars == <<cLogs, cOut>>
vVars == <<vCompleted, vSkipped, vExercises, vWorkouts, vOut>>
vars == <<pipeVars, tVars, gVars, pVars, cVars, vVars>>

(***************************************************************************)
(* Bounds of the model.                                                    *)
(***************************************************************************)
MaxMeasPages == 2
MaxLogPages == 2
MaxLogs == 3
MaxGroups == 2
MaxCellSets == 3
MaxCells == 2

(***************************************************************************)
(* JavaScript values.  Null stands for null/undefined where a string is    *)
(* expected, NullV where an object or a number is; NaN is parseFloat's and *)
(* parseInt's failure; Num(t) is the number t/10.                          *)
(***************************************************************************)
Null == "<null>"
NullV == [type |-> "null"]
NaN == [type |-> "NaN"]
Num(t) == [type |-> "number", tenths |-> t]
Integer(n) == Num(10 * n)
Str(s) == [type |-> "string", val |-> s]
Last(s) == s[Len(s)]

RECURSIVE Concat(_)
Concat(ss) == IF ss = <<>> THEN <<>> ELSE Head(ss) \o Concat(Tail(ss))

RECURSIVE Reverse(_)
Reverse(s) == IF s = <<>> THEN <<>> ELSE Append(Reverse(Tail(s)), Head(s))

\* Array.prototype.find over cells: the first cell whose cellType is in types,
\* or NullV (undefined) when there is none.
find(cells, types) ==
    LET hits == {i \in 1..Len(cells) : cells[i].cellType \in types}
    IN  IF hits = {} THEN NullV
        ELSE cells[CHOOSE i \in hits : \A j \in hits : i <= j]

(***************************************************************************)
(* Errors.                                                                 *)
(***************************************************************************)
RequestError == [tag |-> "RequestError"]     \* httpClient.execute failed
ResponseError == [tag |-> "ResponseError"]   \* response.text / response.json failed

StrongAuthError(message, cause) ==
    [tag |-> "StrongAuthError", message |-> message, cause |-> cause]

StrongApiError(message, status, cause) ==
    [tag |-> "StrongApiError", message |-> message, status |-> status, cause |-> cause]

\* `${prefix}: ${status} - ${text}`
StatusMessage(prefix, status, text) ==
    [prefix |-> prefix, status |-> status, text |-> text]
PlainMessage(text) == [plain |-> text]

(***************************************************************************)
(* Responses.  A request either fails in transport or yields an HTTP       *)
(* response with a status and a body that may or may not be readable.      *)
(***************************************************************************)
Transport == [kind |-> "transport"]
Http(status, readable, text, data) ==
    [kind |-> "http", status |-> status, readable |-> readable,
     text |-> text, data |-> data]
NoData == [none |-> TRUE]

IsHttp(r) == r.kind = "http"
IsOk200(r) == r.kind = "http" /\ r.status = 200

(***************************************************************************)
(* login                                                                   *)
(***************************************************************************)
LoginBodies ==
    [accessToken : {Str("at"), NullV}, refreshToken : {Str("rt"), NullV},
     userId : {Str("u1"), Num(10)}]

LoginResponses ==
    {Transport, Http(401, TRUE, "denied", NoData), Http(401, FALSE, "", NoData),
     Http(200, FALSE, "", NoData)}
    \cup {Http(200, TRUE, "", d) : d \in LoginBodies}

typeof(v) == v.type

\* loginGen without the check of the response shape.
loginGenNoShapeCheck(r) ==
    IF r.kind = "transport" THEN [fail |-> RequestError]
    ELSE IF r.status # 200 THEN
        IF ~r.readable THEN [fail |-> ResponseError]
        ELSE [fail |-> StrongAuthError(
                 StatusMessage("Authentication failed", r.status, r.text), NullV)]
    ELSE IF ~r.readable THEN [fail |-> ResponseError]
    ELSE [value |-> [accessToken |-> "at", refreshToken |-> "rt", userId |-> "u1"]]

\* The generator of login: [fail |-> e] or [value |-> AuthToken].
loginGen(r) ==
    IF r.kind = "transport" THEN [fail |-> RequestError]
    ELSE IF r.status # 200 THEN
        IF ~r.readable THEN [fail |-> ResponseError]
        ELSE [fail |-> StrongAuthError(
                 StatusMessage("Authentication failed", r.status, r.text), NullV)]
    ELSE IF ~r.readable THEN [fail |-> ResponseError]
    ELSE IF \/ typeof(r.data.accessToken) # "string"
            \/ typeof(r.data.refreshToken) # "string"
            \/ typeof(r.data.userId) # "string"
         THEN [fail |-> StrongAuthError(
                  PlainMessage("Unexpected login response shape"), NullV)]
    ELSE [value |-> [accessToken |-> r.data.accessToken.val,
                     refreshToken |-> r.data.refreshToken.val,
                     userId |-> r.data.userId.val]]

\* login without its Effect.catchAll.
loginUncaught(r) == loginGen(r)

\* login: the generator under its Effect.catchAll.
login(r) ==
    LET g == loginGen(r)
    IN  IF "value" \in DOMAIN g THEN g
        ELSE [fail |-> StrongAuthError(
                 IF g.fail.tag = "StrongAuthError" THEN g.fail.message
                 ELSE PlainMessage("Authentication failed"),
                 g.fail)]

(***************************************************************************)
(* fetchMeasurements                                                       *)
(***************************************************************************)
NoName == [custom |-> Null, en |-> Null]     \* name absent, or both fields absent
I1 == [id |-> "m1", name |-> [custom |-> "My Squat", en |-> "Squat"]]
I2 == [id |-> "m1", name |-> [custom |-> Null, en |-> "Squat (Barbell)"]]
I3 == [id |-> "m2", name |-> NoName]

\* The body of a catalog page: whether _embedded.measurement is present, its
\* items, and whether _links.next is present.
MeasData(embedded, measurement, next) ==
    [embedded |-> embedded, measurement |-> measurement, next |-> next]

MeasBodies(p) ==
    {MeasData(FALSE, <<>>, FALSE), MeasData(TRUE, <<I1>>, FALSE),
     MeasData(TRUE, <<I2>>, FALSE), MeasData(TRUE, <<I3>>, FALSE)}
    \cup (IF p + 1 < MaxMeasPages
          THEN {MeasData(TRUE, <<>>, TRUE), MeasData(TRUE, <<I1>>, TRUE),
                MeasData(TRUE, <<I3>>, TRUE)}
          ELSE {})

\* What the backend may answer to the request for page p of a catalog.
MeasResponses(p) ==
    {Transport, Http(404, TRUE, "not found", NoData), Http(200, FALSE, "", NoData)}
    \cup {Http(200, TRUE, "", d) : d \in MeasBodies(p)}

\* measurementName with the primary name preferred to the custom one.
measurementNameEnFirst(m) ==
    IF m.name.en # Null THEN m.name.en
    ELSE IF m.name.custom # Null THEN m.name.custom
    ELSE m.id

\* m.name?.custom ?? m.name?.en ?? m.id
measurementName(m) ==
    IF m.name.custom # Null THEN m.name.custom
    ELSE IF m.name.en # Null THEN m.name.en
    ELSE m.id

\* map.set(id, name)
MapSet(mp, id, name) ==
    [k \in DOMAIN mp \cup {id} |-> IF k = id THEN name ELSE mp[k]]

\* for (const m of measurements) map.set(m.id, name)
RECURSIVE SetAll(_, _)
SetAll(mp, measurements) ==
    IF measurements = <<>> THEN mp
    ELSE SetAll(MapSet(mp, Head(measurements).id, measurementName(Head(measurements))),
                Tail(measurements))

\* data._embedded?.measurement ?? []
measurementsOf(data) == IF data.embedded THEN data.measurement ELSE <<>>

\* fetchFromEndpointStep failing on a bad status, as fetchWorkoutLogs does.
fetchFromEndpointStepStrict(r, mp) ==
    IF r.kind = "transport" THEN [step |-> "fail", cause |-> RequestError, map |-> mp]
    ELSE IF r.status # 200 THEN [step |-> "fail", cause |-> ResponseError, map |-> mp]
    ELSE IF ~r.readable THEN [step |-> "fail", cause |-> ResponseError, map |-> mp]
    ELSE LET measurements == measurementsOf(r.data)
             mp2 == SetAll(mp, measurements)
         IN  IF ~r.data.next \/ Len(measurements) = 0
             THEN [step |-> "break", map |-> mp2]
             ELSE [step |-> "continue", map |-> mp2]

\* fetchFromEndpointStep going on after an empty page that has a next link.
fetchFromEndpointStepNoEmptyStop(r, mp) ==
    IF r.kind = "transport" THEN [step |-> "fail", cause |-> RequestError, map |-> mp]
    ELSE IF r.status # 200 THEN [step |-> "break", map |-> mp]
    ELSE IF ~r.readable THEN [step |-> "fail", cause |-> ResponseError, map |-> mp]
    ELSE LET measurements == measurementsOf(r.data)
             mp2 == SetAll(mp, measurements)
         IN  IF ~r.data.next
             THEN [step |-> "break", map |-> mp2]
             ELSE [step |-> "continue", map |-> mp2]

\* One iteration of fetchFromEndpoint's loop on the response r:
\* "fail" (the effect fails), "break" or "continue", and the map after it.
fetchFromEndpointStep(r, mp) ==
    IF r.kind = "transport" THEN [step |-> "fail", cause |-> RequestError, map |-> mp]
    ELSE IF r.status # 200 THEN [step |-> "break", map |-> mp]
    ELSE IF ~r.readable THEN [step |-> "fail", cause |-> ResponseError, map |-> mp]
    ELSE LET measurements == measurementsOf(r.data)
             mp2 == SetAll(mp, measurements)
         IN  IF ~r.data.next \/ Len(measurements) = 0
             THEN [step |-> "break", map |-> mp2]
             ELSE [step |-> "continue", map |-> mp2]

\* fetchMeasurements without its Effect.catchAll: the cause escapes as it is.
fetchMeasurementsErrorUnwrapped(cause) == cause

\* fetchMeasurements' Effect.catchAll
fetchMeasurementsError(cause) ==
    StrongApiError(PlainMessage("Failed to fetch measurements"), NullV, cause)

(***************************************************************************)
(* fetchWorkoutLogs                                                        *)
(***************************************************************************)
limit == 200

\* A URL string, by its path and its query pairs; "" is EmptyHref.
Href(path, query) == [path |-> path, query |-> query]
EmptyHref == Href("", <<>>)
Pair(k, v) == [key |-> k, value |-> v]

\* URLSearchParams.get: the value of the first pair named key, or Null.
searchParamsGet(url, key) ==
    LET hits == {i \in 1..Len(url.query) : url.query[i].key = key}
    IN  IF hits = {} THEN Null
        ELSE url.query[CHOOSE i \in hits : \A j \in hits : i <= j].value

(***************************************************************************)
(* parseSet                                                                *)
(***************************************************************************)
WEIGHT_CELL_TYPES ==
    {"OTHER_WEIGHT", "DUMBBELL_WEIGHT", "BARBELL_WEIGHT", "WEIGHTED_BODYWEIGHT"}

Cell(cellType, value) == [cellType |-> cellType, value |-> value]
CellSet(cells, isCompleted) == [cells |-> cells, isCompleted |-> isCompleted]

\* parseFloat on the strings the model sends.
parseFloat(v) ==
    CASE v = "100" -> Num(1000)
      [] v = "110" -> Num(1100)
      [] v = "5" -> Num(50)
      [] v = "8.5" -> Num(85)
      [] v = "60" -> Num(600)
      [] v = "00:30:00" -> Num(0)
      [] OTHER -> NaN

\* parseInt(v, 10) on the strings the model sends.
parseInt(v) ==
    CASE v = "100" -> Num(1000)
      [] v = "110" -> Num(1100)
      [] v = "5" -> Num(50)
      [] v = "8.5" -> Num(80)
      [] v = "60" -> Num(600)
      [] v = "00:30:00" -> Num(0)
      [] OTHER -> NaN

\* cell?.value, with undefined and null as Null
valueOf(cell) == IF cell = NullV THEN Null ELSE cell.value

\* JavaScript truthiness of a string-or-null
truthy(v) == v # Null /\ v # ""

\* hasMarker without the check for NOTE.
hasMarkerRestOnly(cells) ==
    LET types == {cells[i].cellType : i \in 1..Len(cells)}
    IN  "REST_TIMER" \in types

\* types.includes("REST_TIMER") || types.includes("NOTE")
hasMarker(cells) ==
    LET types == {cells[i].cellType : i \in 1..Len(cells)}
    IN  "REST_TIMER" \in types \/ "NOTE" \in types

parseSet(cellSet) ==
    IF hasMarker(cellSet.cells) THEN NullV
    ELSE LET weightCell == find(cellSet.cells, WEIGHT_CELL_TYPES)
             repsCell == find(cellSet.cells, {"REPS"})
             rpeCell == find(cellSet.cells, {"RPE"})
             distanceCell == find(cellSet.cells, {"DISTANCE"})
             durationCell == find(cellSet.cells, {"DURATION"})
         IN  [set |->
                 [weightKg |-> IF truthy(valueOf(weightCell))
                               THEN parseFloat(weightCell.value) ELSE NullV,
                  reps |-> IF truthy(valueOf(repsCell))
                           THEN parseInt(repsCell.value) ELSE NullV,
                  rpe |-> IF truthy(valueOf(rpeCell))
                          THEN parseFloat(rpeCell.value) ELSE NullV,
                  distance |-> IF truthy(valueOf(distanceCell))
                               THEN parseFloat(distanceCell.value) ELSE NullV,
                  duration |-> valueOf(durationCell)],
              completed |-> cellSet.isCompleted]

(***************************************************************************)
(* transformLogs                                                           *)
(***************************************************************************)
\* A cell-set-group: the measurement href as its "/"-separated segments
\* (<<>> when the href is absent) and the cell-sets.
Group(href, cellSets) == [href |-> href, cellSets |-> cellSets]

RawLog(id, name, logType, startDate, groups) ==
    [id |-> id, name |-> name, logType |-> logType, startDate |-> startDate,
     endDate |-> Null, timezoneId |-> Null, cellSetGroup |-> groups]

\* group._links?.measurement?.href ?? "", then .split("/")
hrefSegments(group) == IF group.href = <<>> THEN <<"">> ELSE group.href

\* measurementMap.get(measurementId) ?? "Unknown"
exerciseName(mp, measurementId) ==
    IF measurementId \in DOMAIN mp THEN mp[measurementId] ELSE "Unknown"

\* group.cellSets.map(parseSet).filter((s) => s !== null)
parsedSets(group) ==
    LET all == [i \in 1..Len(group.cellSets) |-> parseSet(group.cellSets[i])]
        NotNull(p) == p # NullV
    IN  SelectSeq(all, NotNull)

\* completedOf keeping only the sets flagged true.
completedOfTrueOnly(parsed) ==
    LET Keep(p) == p.completed = "true"
        kept == SelectSeq(parsed, Keep)
    IN  [i \in 1..Len(kept) |-> kept[i].set]

\* parsed.filter((p) => p.completed !== false).map((p) => p.set)
completedOf(parsed) ==
    LET Keep(p) == p.completed # "false"
        kept == SelectSeq(parsed, Keep)
    IN  [i \in 1..Len(kept) |-> kept[i].set]

\* parsed.filter((p) => p.completed === false).map((p) => p.set)
skippedOf(parsed) ==
    LET Keep(p) == p.completed = "false"
        kept == SelectSeq(parsed, Keep)
    IN  [i \in 1..Len(kept) |-> kept[i].set]

toExercise(group, mp) ==
    LET measurementId == Last(hrefSegments(group))
        parsed == parsedSets(group)
    IN  [name |-> exerciseName(mp, measurementId),
         completedSets |-> completedOf(parsed),
         skippedSets |-> skippedOf(parsed)]

\* exercisesOf without the filter on the number of sets.
exercisesOfUnfiltered(log, mp) ==
    [i \in 1..Len(log.cellSetGroup) |-> toExercise(log.cellSetGroup[i], mp)]

\* .filter((e) => e.completedSets.length + e.skippedSets.length > 0)
exercisesOf(log, mp) ==
    LET all == [i \in 1..Len(log.cellSetGroup) |-> toExercise(log.cellSetGroup[i], mp)]
        NonEmpty(e) == Len(e.completedSets) + Len(e.skippedSets) > 0
    IN  SelectSeq(all, NonEmpty)

\* log.name?.en ?? log.name?.custom ?? null
workoutName(log) ==
    IF log.name.en # Null THEN log.name.en
    ELSE IF log.name.custom # Null THEN log.name.custom
    ELSE Null

toWorkout(log, mp) ==
    [id |-> log.id, name |-> workoutName(log), startDate |-> log.startDate,
     endDate |-> log.endDate, timezone |-> log.timezoneId,
     exercises |-> exercisesOf(log, mp)]

\* .filter((log) => log.logType === "WORKOUT" || log.logType === "LOG")
keptLogs(ls) ==
    LET Keep(log) == log.logType = "WORKOUT" \/ log.logType = "LOG"
    IN  SelectSeq(ls, Keep)

\* group.cellSets.map and cellSet.cells.map are called unguarded: on a kept
\* log with a group that has no cellSets, or a cell-set that has no cells,
\* transformLogs throws a TypeError.
transformLogsThrows(ls) ==
    LET kept == keptLogs(ls)
    IN  \E i \in 1..Len(kept) :
            \E g \in 1..Len(kept[i].cellSetGroup) :
                LET group == kept[i].cellSetGroup[g]
                IN  \/ "cellSets" \notin DOMAIN group
                    \/ \E s \in 1..Len(group.cellSets) :
                           "cells" \notin DOMAIN group.cellSets[s]

\* transformLogs without the final .reverse().
transformLogsNoReverse(ls, mp) ==
    LET kept == keptLogs(ls)
    IN  [i \in 1..Len(kept) |-> toWorkout(kept[i], mp)]

transformLogs(ls, mp) ==
    LET kept == keptLogs(ls)
    IN  Reverse([i \in 1..Len(kept) |-> toWorkout(kept[i], mp)])

(***************************************************************************)
(* The logs the backend serves to fetchWorkoutLogs.                        *)
(***************************************************************************)
SquatSet ==
    CellSet(<<Cell("BARBELL_WEIGHT", "100"), Cell("REPS", "5")>>, "true")
SquatGroup == Group(<<"", "api", "measurements", "m1">>, <<SquatSet>>)
L1 == RawLog("log-1", [en |-> Null, custom |-> "Leg Day"], "WORKOUT",
             "2026-01-01T10:00:00Z", <<SquatGroup>>)
L2 == RawLog("log-2", NoName, "MEASUREMENT", Null, <<>>)
L3 == RawLog("log-3", NoName, "LOG", "2026-01-02T10:00:00Z", <<>>)

\* Logs that deviate from the RawLog model: a cell-set-group without
\* cellSets, and a cell-set without cells.
L4 == RawLog("log-4", NoName, "WORKOUT", "2026-01-03T10:00:00Z",
             <<[href |-> <<"", "api", "measurements", "m1">>]>>)
L5 == RawLog("log-5", NoName, "LOG", "2026-01-03T10:00:00Z",
             <<Group(<<>>, <<SquatSet, [isCompleted |-> "true"]>>)>>)
MalformedBatches == {<<L4>>, <<L1, L5>>}

\* The body of a log page: whether _embedded.log is present, its logs, and
\* _links.continuation.href (NullV when any part of that path is absent).
LogData(embedded, log, href) == [embedded |-> embedded, log |-> log, href |-> href]

\* The link of the n-th page to the next one: each page hands out its own token.
Tokens == <<"t1", "t2", "t3", "t4">>
TokenHref(n) ==
    Href("/api/users/u1", <<Pair("limit", "200"), Pair("continuation", Tokens[n]),
                            Pair("continuation", "stale")>>)
FinalHrefs ==
    {NullV, EmptyHref, Href("/api/users/u1", <<Pair("limit", "200")>>),
     Href("/api/users/u1", <<Pair("continuation", "")>>)}

\* What the backend may answer to the n-th log page request.
LogBodies(n) ==
    {LogData(FALSE, <<>>, NullV)}
    \cup {LogData(TRUE, b, h) : b \in {<<>>, <<L1>>, <<L2, L3>>}, h \in FinalHrefs}
    \cup {LogData(TRUE, b, NullV) : b \in MalformedBatches}
    \cup (IF n < MaxLogPages
          THEN {LogData(TRUE, b, TokenHref(n)) : b \in {<<>>, <<L1>>, <<L2, L3>>}}
          ELSE {})

LogResponses(n) ==
    {Transport, Http(500, TRUE, "boom", NoData), Http(401, FALSE, "", NoData),
     Http(200, FALSE, "", NoData)}
    \cup {Http(200, TRUE, "", d) : d \in LogBodies(n)}

\* data._embedded?.log ?? []
batchOf(data) == IF data.embedded THEN data.log ELSE <<>>

\* !nextHref
noHref(href) == href = NullV \/ href = EmptyHref

\* nextContinuation reading a query parameter the backend does not send.
nextContinuationWrongKey(href) ==
    LET c == searchParamsGet(href, "continuationToken")
    IN  IF c = Null THEN "" ELSE c

\* new URL(nextHref, backend).searchParams.get("continuation") ?? ""
nextContinuation(href) ==
    LET c == searchParamsGet(href, "continuation")
    IN  IF c = Null THEN "" ELSE c

\* fetchWorkoutLogsStep going on with the token it already had.
fetchWorkoutLogsStepStaleToken(r, ls, cont) ==
    IF r.kind = "transport"
    THEN [step |-> "fail", error |-> RequestError, logs |-> ls, continuation |-> cont]
    ELSE IF r.status # 200 THEN
        IF ~r.readable
        THEN [step |-> "fail", error |-> ResponseError, logs |-> ls,
              continuation |-> cont]
        ELSE [step |-> "fail",
              error |-> StrongApiError(
                  StatusMessage("Failed to fetch logs", r.status, r.text),
                  Integer(r.status), NullV),
              logs |-> ls, continuation |-> cont]
    ELSE IF ~r.readable
    THEN [step |-> "fail", error |-> ResponseError, logs |-> ls, continuation |-> cont]
    ELSE LET batch == batchOf(r.data)
             ls2 == ls \o batch
             nextHref == r.data.href
         IN  IF noHref(nextHref) \/ Len(batch) = 0
             THEN [step |-> "break", logs |-> ls2, continuation |-> cont]
             ELSE IF nextContinuation(nextHref) = ""
             THEN [step |-> "break", logs |-> ls2, continuation |-> ""]
             ELSE [step |-> "continue", logs |-> ls2, continuation |-> cont]

\* The generator of fetchWorkoutLogs on the response r to one page request:
\* "fail" with the error, "break" or "continue", with logs and continuation.
fetchWorkoutLogsStep(r, ls, cont) ==
    IF r.kind = "transport"
    THEN [step |-> "fail", error |-> RequestError, logs |-> ls, continuation |-> cont]
    ELSE IF r.status # 200 THEN
        IF ~r.readable
        THEN [step |-> "fail", error |-> ResponseError, logs |-> ls,
              continuation |-> cont]
        ELSE [step |-> "fail",
              error |-> StrongApiError(
                  StatusMessage("Failed to fetch logs", r.status, r.text),
                  Integer(r.status), NullV),
              logs |-> ls, continuation |-> cont]
    ELSE IF ~r.readable
    THEN [step |-> "fail", error |-> ResponseError, logs |-> ls, continuation |-> cont]
    ELSE LET batch == batchOf(r.data)
             ls2 == ls \o batch
             nextHref == r.data.href
         IN  IF noHref(nextHref) \/ Len(batch) = 0
             THEN [step |-> "break", logs |-> ls2, continuation |-> cont]
             ELSE IF nextContinuation(nextHref) = ""
             THEN [step |-> "break", logs |-> ls2, continuation |-> ""]
             ELSE [step |-> "continue", logs |-> ls2,
                   continuation |-> nextContinuation(nextHref)]

\* fetchWorkoutLogs' Effect.catchAll
fetchWorkoutLogsError(cause) ==
    StrongApiError(PlainMessage("Failed to fetch workout logs"), NullV, cause)

(***************************************************************************)
(* exportWorkouts                                                          *)
(***************************************************************************)
NotRun == [ran |-> FALSE]
Ran(v) == [ran |-> TRUE, value |-> v]
EmptyMap == [k \in {} |-> ""]

Init ==
    /\ pc = "idle"
    /\ token = NullV
    /\ requests = <<>>
    /\ responses = <<>>
    /\ mState = "pending"
    /\ mInflight = FALSE
    /\ page = 0
    /\ map = EmptyMap
    /\ lState = "pending"
    /\ lInflight = FALSE
    /\ continuation = ""
    /\ logs = <<>>
    /\ error = NullV
    /\ result = NullV
    /\ transformed = FALSE
    /\ tLogs = <<>>
    /\ tOut = NotRun
    /\ gGroups = <<>>
    /\ gSets = <<>>
    /\ gOut = NotRun
    /\ pCells = <<>>
    /\ pOut = NotRun
    /\ cLogs = <<>>
    /\ cOut = NotRun
    /\ vCompleted = <<>>
    /\ vSkipped = <<>>
    /\ vExercises = <<>>
    /\ vWorkouts = <<>>
    /\ vOut = NotRun

LoginRequest == [kind |-> "login"]
MeasRequest(endpoint, p) == [kind |-> "measurements", endpoint |-> endpoint, page |-> p]
LogRequest(cont) == [kind |-> "logs", limit |-> limit, continuation |-> cont]

Exchange(req, resp) == [req |-> req, resp |-> resp]

\* Effect.all([fetchMeasurements, fetchWorkoutLogs]) without a concurrency
\* option runs its effects one after the other: the second starts when the
\* first has succeeded.
effectAllMayRun(branch) ==
    IF branch = "measurements" THEN TRUE ELSE mState = "ok"

\* The value exportWorkouts returns.
exportData(workouts) ==
    [exportedAt |-> "now", totalWorkouts |-> Len(workouts), workouts |-> workouts]

\* exportWorkouts is called: login sends its request.
Start ==
    /\ pc = "idle"
    /\ pc' = "login"
    /\ requests' = Append(requests, LoginRequest)
    /\ UNCHANGED <<token, responses, mState, mInflight, page, map, lState, lInflight,
                   continuation, logs, error, result, transformed>>
    /\ UNCHANGED <<tVars, gVars, pVars, cVars, vVars>>

\* The login request is answered.
LoginResponse ==
    /\ pc = "login"
    /\ \E r \in LoginResponses :
        LET out == login(r)
        IN  /\ responses' = Append(responses, Exchange(LoginRequest, r))
            /\ IF "value" \in DOMAIN out
               THEN /\ token' = out.value
                    /\ pc' = "fetching"
                    /\ error' = error
               ELSE /\ token' = token
                    /\ pc' = "failed"
                    /\ error' = out.fail
    /\ UNCHANGED <<requests, mState, mInflight, page, map, lState, lInflight,
                   continuation, logs, result, transformed>>
    /\ UNCHANGED <<tVars, gVars, pVars, cVars, vVars>>

\* fetchFromEndpoint requests the next page of the current catalog.
MeasurementsRequest ==
    /\ pc = "fetching"
    /\ effectAllMayRun("measurements")
    /\ mState \in {"pending", "global", "user"}
    /\ ~mInflight
    /\ mState' = IF mState = "pending" THEN "global" ELSE mState
    /\ requests' = Append(requests, MeasRequest(mState', page))
    /\ mInflight' = TRUE
    /\ UNCHANGED <<pc, token, responses, page, map, lState, lInflight, continuation,
                   logs, error, result, transformed>>
    /\ UNCHANGED <<tVars, gVars, pVars, cVars, vVars>>

\* A catalog page request is answered.
MeasurementsResponse ==
    /\ pc = "fetching"
    /\ mInflight
    /\ \E r \in MeasResponses(page) :
        LET out == fetchFromEndpointStep(r, map)
        IN  /\ responses' = Append(responses, Exchange(MeasRequest(mState, page), r))
            /\ map' = out.map
            /\ mInflight' = FALSE
            /\ CASE out.step = "continue" ->
                      /\ page' = page + 1
                      /\ UNCHANGED <<mState, pc, error>>
                 [] out.step = "break" ->
                      /\ page' = 0
                      /\ mState' = IF mState = "global" THEN "user" ELSE "ok"
                      /\ UNCHANGED <<pc, error>>
                 [] out.step = "fail" ->
                      /\ mState' = "failed"
                      /\ pc' = "failed"
                      /\ error' = fetchMeasurementsError(out.cause)
                      /\ UNCHANGED page
    /\ UNCHANGED <<token, requests, lState, lInflight, continuation, logs, result,
                   transformed>>
    /\ UNCHANGED <<tVars, gVars, pVars, cVars, vVars>>

\* fetchWorkoutLogs requests the next page of logs.
LogsRequest ==
    /\ pc = "fetching"
    /\ effectAllMayRun("logs")
    /\ lState \in {"pending", "running"}
    /\ ~lInflight
    /\ lState' = "running"
    /\ requests' = Append(requests, LogRequest(continuation))
    /\ lInflight' = TRUE
    /\ UNCHANGED <<pc, token, responses, mState, mInflight, page, map, continuation,
                   logs, error, result, transformed>>
    /\ UNCHANGED <<tVars, gVars, pVars, cVars, vVars>>

LogPagesReceived ==
    Cardinality({i \in 1..Len(responses) : responses[i].req.kind = "logs"})

\* A log page request is answered; when it was the last page, Effect.all
\* completes and exportWorkouts transforms and returns.  A TypeError thrown
\* by transformLogs inside Effect.gen is a defect: exportWorkouts dies with
\* it, with neither a result nor an error in its error channel.
LogsResponse ==
    /\ pc = "fetching"
    /\ lInflight
    /\ \E r \in LogResponses(LogPagesReceived + 1) :
        LET out == fetchWorkoutLogsStep(r, logs, continuation)
        IN  /\ responses' = Append(responses, Exchange(LogRequest(continuation), r))
            /\ logs' = out.logs
            /\ continuation' = out.continuation
            /\ lInflight' = FALSE
            /\ CASE out.step = "continue" ->
                      UNCHANGED <<lState, pc, error, result, transformed>>
                 [] out.step = "break" ->
                      /\ lState' = "ok"
                      /\ transformed' = TRUE
                      /\ IF transformLogsThrows(logs')
                         THEN /\ result' = result
                              /\ pc' = "died"
                         ELSE /\ result' = exportData(transformLogs(logs', map))
                              /\ pc' = "done"
                      /\ UNCHANGED error
                 [] out.step = "fail" ->
                      /\ lState' = "failed"
                      /\ pc' = "failed"
                      /\ error' = fetchWorkoutLogsError(out.error)
                      /\ UNCHANGED <<result, transformed>>
    /\ UNCHANGED <<token, requests, mState, mInflight, page, map>>
    /\ UNCHANGED <<tVars, gVars, pVars, cVars, vVars>>

Next ==
    \/ Start
    \/ LoginResponse
    \/ MeasurementsRequest
    \/ MeasurementsResponse
    \/ LogsRequest
    \/ LogsResponse

Spec == Init /\ [][Next]_vars

\* The export when every log page request is eventually answered and the
\* loop of fetchWorkoutLogs, which awaits nothing but the response, goes on
\* to its next request.
FairSpec == Spec /\ WF_vars(LogsRequest) /\ WF_vars(LogsResponse)

(***************************************************************************)
(* Properties of the export pipeline (specification Spec).                 *)
(***************************************************************************)
LoginSucceeded(r) ==
    /\ r.kind = "http"
    /\ r.status = 200
    /\ r.readable
    /\ r.data.accessToken.type = "string"
    /\ r.data.refreshToken.type = "string"
    /\ r.data.userId.type = "string"

FetchRequests == {i \in 1..Len(requests) : requests[i].kind # "login"}

OfKind(xs, kind) ==
    LET Is(x) == x.req.kind = kind
    IN  SelectSeq(xs, Is)

MeasExchanges == OfKind(responses, "measurements")
LogExchanges == OfKind(responses, "logs")

LogRequests ==
    LET Is(q) == q.kind = "logs"
    IN  SelectSeq(requests, Is)

IsBadStatus(r) == r.kind = "http" /\ r.status # 200
IsGoodPage(r) == r.kind = "http" /\ r.status = 200 /\ r.readable
IsBroken(r) == r.kind = "transport" \/ (r.kind = "http" /\ r.status = 200 /\ ~r.readable)

\* C1: no measurement-catalog or log request is issued before the login
\* request has returned a success (status 200 with accessToken, refreshToken
\* and userId all strings); when login fails the export is Failed with a
\* StrongAuthError, no fetch request was ever issued and no ExportData exists.
C1_LoginBeforeFetch ==
    /\ FetchRequests # {} =>
        /\ Len(responses) >= 1
        /\ responses[1].req = LoginRequest
        /\ LoginSucceeded(responses[1].resp)
    /\ (Len(responses) >= 1 /\ ~LoginSucceeded(responses[1].resp)) =>
        /\ pc = "failed"
        /\ error # NullV
        /\ error.tag = "StrongAuthError"
        /\ FetchRequests = {}
        /\ result = NullV
        /\ ~transformed

\* A 200 login response with a malformed body has ended the export.
C1_Witness ==
    /\ pc = "failed"
    /\ Len(responses) = 1
    /\ responses[1].resp.kind = "http"
    /\ responses[1].resp.status = 200
    /\ responses[1].resp.readable
    /\ ~LoginSucceeded(responses[1].resp)
    /\ requests = <<LoginRequest>>

\* C2: the two fetches are unsynchronized branches: once login has succeeded,
\* a branch that still has a request to issue can issue it whatever the state
\* of the other branch (the first log-page request before the measurement
\* lookup has finished, and vice versa).
C2_Unsynchronized ==
    /\ (pc = "fetching" /\ lState \in {"pending", "running"} /\ ~lInflight)
          => ENABLED LogsRequest
    /\ (pc = "fetching" /\ mState \in {"pending", "global", "user"} /\ ~mInflight)
          => ENABLED MeasurementsRequest

\* A fetch has failed in the backend's answers: a transport error or an
\* unreadable body on a catalog page, or any of these or a bad status on a
\* log page.
MeasFetchBroken == \E i \in 1..Len(MeasExchanges) : IsBroken(MeasExchanges[i].resp)
LogFetchBroken ==
    \E i \in 1..Len(LogExchanges) :
        IsBroken(LogExchanges[i].resp) \/ IsBadStatus(LogExchanges[i].resp)

\* C3: transformLogs is invoked only after both fetchMeasurements and
\* fetchWorkoutLogs have completed successfully; when either fetch fails,
\* exportWorkouts fails with a StrongApiError (never a StrongAuthError), the
\* transformer is never invoked and no ExportData is returned.
C3_ForkJoin ==
    /\ transformed => (mState = "ok" /\ lState = "ok")
    /\ result # NullV => transformed
    /\ (MeasFetchBroken \/ LogFetchBroken \/ mState = "failed" \/ lState = "failed") =>
        /\ pc = "failed"
        /\ error # NullV
        /\ error.tag = "StrongApiError"
        /\ ~transformed
        /\ result = NullV

\* A 401 on a log page has failed the export after the measurements succeeded.
C3_Witness ==
    /\ pc = "failed"
    /\ mState = "ok"
    /\ lState = "failed"
    /\ Last(responses).resp.kind = "http"
    /\ Last(responses).resp.status = 401

\* C4: when a log page request returns a non-200 status (its body text
\* readable), the fetch fails and the StrongApiError the caller receives
\* carries that status in its status field and the status and body text in
\* its message.
C4_StatusCarried ==
    \A i \in 1..Len(LogExchanges) :
        LET r == LogExchanges[i].resp
        IN  (IsBadStatus(r) /\ r.readable) =>
                /\ pc = "failed"
                /\ lState = "failed"
                /\ result = NullV
                /\ error.tag = "StrongApiError"
                /\ error.status = Integer(r.status)
                /\ error.message = StatusMessage("Failed to fetch logs", r.status, r.text)

\* The items of a received catalog page (none unless it is a readable 200).
ItemsOf(x) == IF IsGoodPage(x.resp) /\ x.resp.data.embedded
              THEN x.resp.data.measurement ELSE <<>>

\* The measurement requests issued so far.
MeasRequests ==
    LET Is(q) == q.kind = "measurements"
    IN  SelectSeq(requests, Is)

\* C5: a non-200 response on any page of a catalog endpoint ends that
\* endpoint's pagination only and surfaces no error: the ids collected from
\* earlier pages stay in the map, after a bad status on the global endpoint
\* the user-scoped endpoint is paginated from page 0, after a bad status on
\* the user-scoped endpoint fetchMeasurements has succeeded, and the export is
\* not failed by the measurement lookup.
C5_LenientCatalog ==
    \A i \in 1..Len(MeasExchanges) :
        LET x == MeasExchanges[i]
        IN  IsBadStatus(x.resp) =>
              /\ \A j \in 1..(i - 1) : \A k \in 1..Len(ItemsOf(MeasExchanges[j])) :
                    ItemsOf(MeasExchanges[j])[k].id \in DOMAIN map
              /\ \A j \in 1..Len(MeasExchanges) :
                    (j > i /\ MeasExchanges[j].req.endpoint = x.req.endpoint)
                        => FALSE
              /\ x.req.endpoint = "global" =>
                    /\ mState \in {"user", "ok", "failed"}
                    /\ Len(MeasRequests) > i => MeasRequests[i + 1] = MeasRequest("user", 0)
                    /\ mState = "ok" => Len(MeasExchanges) > i
              /\ x.req.endpoint = "user" => mState = "ok"
              /\ mState = "failed" => (i < Len(MeasExchanges) /\ IsBroken(Last(MeasExchanges).resp))
              /\ (pc = "failed" /\ mState # "failed") => lState = "failed"

\* The global catalog answered 404 on its second page; the export is done
\* with the entry of its first page and the entry of the user-scoped catalog.
C5_Witness ==
    /\ pc = "done"
    /\ Len(MeasExchanges) = 3
    /\ MeasExchanges[1].req = MeasRequest("global", 0)
    /\ ItemsOf(MeasExchanges[1]) = <<I1>>
    /\ MeasExchanges[2].req = MeasRequest("global", 1)
    /\ IsBadStatus(MeasExchanges[2].resp)
    /\ MeasExchanges[3].req = MeasRequest("user", 0)
    /\ ItemsOf(MeasExchanges[3]) = <<I3>>
    /\ DOMAIN map = {"m1", "m2"}

\* The continuation token a log page's body hands out: the value of the first
\* continuation parameter of its link, "" when it has none.
TokenOf(data) ==
    IF data.href = NullV THEN ""
    ELSE LET Is(q) == q.key = "continuation"
             cs == SelectSeq(data.href.query, Is)
         IN  IF cs = <<>> THEN "" ELSE cs[1].value

BatchOfPage(x) == IF IsGoodPage(x.resp) /\ x.resp.data.embedded
                  THEN x.resp.data.log ELSE <<>>

\* The loop's stop condition on a 200 page, as the claim words it.
StopsAfter(x) ==
    \/ x.resp.data.href = NullV
    \/ BatchOfPage(x) = <<>>
    \/ TokenOf(x.resp.data) = ""

\* C6: the first log request carries the empty continuation token and each
\* later one exactly the token of the previous response's link; after a 200
\* response the loop stops exactly when that response has no continuation
\* link, an empty batch or an empty token; on success the result is the
\* concatenation of all received batches in response order.
C6_ContinuationChain ==
    /\ \A k \in 1..Len(LogRequests) :
          /\ LogRequests[k].continuation =
                (IF k = 1 THEN "" ELSE TokenOf(LogExchanges[k - 1].resp.data))
          /\ k > 1 => LogRequests[k].continuation = Tokens[k - 1]
    /\ (Len(LogExchanges) >= 1 /\ IsGoodPage(Last(LogExchanges).resp)) =>
          /\ StopsAfter(Last(LogExchanges)) <=> lState = "ok"
          /\ ~StopsAfter(Last(LogExchanges)) <=> lState = "running"
    /\ \A k \in 1..(Len(LogExchanges) - 1) :
          IsGoodPage(LogExchanges[k].resp) /\ ~StopsAfter(LogExchanges[k])
    /\ lState = "ok" =>
          /\ logs = Concat([k \in 1..Len(LogExchanges) |-> BatchOfPage(LogExchanges[k])])
          /\ pc \in {"done", "died"}

\* Two pages were fetched, the second with the first one's token, and the
\* result holds both batches in order.
C6_Witness ==
    /\ lState = "ok"
    /\ Len(LogExchanges) = 2
    /\ LogRequests[2].continuation = "t1"
    /\ BatchOfPage(LogExchanges[1]) = <<L1>>
    /\ BatchOfPage(LogExchanges[2]) = <<L2, L3>>
    /\ logs = <<L1, L2, L3>>

\* All items received so far from one catalog endpoint, in response order.
ItemsFrom(endpoint) ==
    LET Is(x) == x.req.endpoint = endpoint
        xs == SelectSeq(MeasExchanges, Is)
    IN  Concat([k \in 1..Len(xs) |-> ItemsOf(xs[k])])

\* The name the claim gives an item: custom, else primary, else the id.
ClaimedName(m) ==
    CASE m.name.custom # Null -> m.name.custom
      [] m.name.custom = Null /\ m.name.en # Null -> m.name.en
      [] OTHER -> m.id

\* The last item with this id in a sequence of items.
LastWithId(items, id) ==
    LET hits == {i \in 1..Len(items) : items[i].id = id}
    IN  items[CHOOSE i \in hits : \A j \in hits : j <= i]

IdsOf(items) == {items[i].id : i \in 1..Len(items)}

\* C7: the measurement map holds exactly the ids seen on the fetched pages,
\* each named custom-else-primary-else-id; an id of both catalogs has the
\* user-scoped catalog's entry, and within one endpoint the entry of the
\* latest page.
C7_MergedMap ==
    /\ DOMAIN map = IdsOf(ItemsFrom("global")) \cup IdsOf(ItemsFrom("user"))
    /\ \A id \in DOMAIN map :
          map[id] = IF id \in IdsOf(ItemsFrom("user"))
                    THEN ClaimedName(LastWithId(ItemsFrom("user"), id))
                    ELSE ClaimedName(LastWithId(ItemsFrom("global"), id))

\* m1 came from the global catalog with a primary name only and from the
\* user-scoped catalog with a custom name; the export is done with the latter.
C7_Witness ==
    /\ pc = "done"
    /\ ItemsFrom("global") = <<I3, I2>>
    /\ ItemsFrom("user") = <<I1>>
    /\ map["m1"] = "My Squat"
    /\ map["m2"] = "m2"

(***************************************************************************)
(* transformLogs on bounded inputs.  TSpec builds a sequence of logs,       *)
(* GSpec the cell-set-groups of one log, PSpec the cells of one cell-set;   *)
(* each then applies the function.                                          *)
(***************************************************************************)
Ids == <<"log-1", "log-2", "log-3", "log-4", "log-5">>
LogTypes == {"WORKOUT", "LOG", "MEASUREMENT", Null}
Names == {NoName, [en |-> "Leg Day", custom |-> Null],
          [en |-> Null, custom |-> "My Workout"],
          [en |-> "Leg Day", custom |-> "My Workout"]}
TMap == [k \in {"m1"} |-> "Squat (Barbell)"]

\* One more log is put at the end of the input.
AddLog ==
    /\ ~tOut.ran
    /\ Len(tLogs) < MaxLogs
    /\ \E logType \in LogTypes, name \in Names :
          tLogs' = Append(tLogs, RawLog(Ids[Len(tLogs) + 1], name, logType,
                                        "2026-01-01T10:00:00Z", <<SquatGroup>>))
    /\ UNCHANGED <<tOut, pipeVars, gVars, pVars, cVars, vVars>>

\* transformLogs(logs, measurementMap) is called.
TransformLogs ==
    /\ ~tOut.ran
    /\ tOut' = Ran(transformLogs(tLogs, TMap))
    /\ UNCHANGED <<tLogs, pipeVars, gVars, pVars, cVars, vVars>>

TNext ==
    \/ AddLog
    \/ TransformLogs

TSpec == Init /\ [][TNext]_vars

\* The cell-sets GSpec builds groups from: completed, flag absent, two
\* skipped, and two that hold a marker cell.
CompletedSet == CellSet(<<Cell("BARBELL_WEIGHT", "100"), Cell("REPS", "5")>>, "true")
UnflaggedSet == CellSet(<<Cell("DUMBBELL_WEIGHT", "110")>>, Null)
SkippedSet == CellSet(<<Cell("REPS", "5")>>, "false")
SkippedRun == CellSet(<<Cell("DISTANCE", "8.5")>>, "false")
RestSet == CellSet(<<Cell("REST_TIMER", "60")>>, Null)
NotedSet == CellSet(<<Cell("BARBELL_WEIGHT", "100"), Cell("NOTE", "heavy")>>, "false")
SampleCellSets ==
    {CompletedSet, UnflaggedSet, SkippedSet, SkippedRun, RestSet, NotedSet}
SampleHrefs == {<<"", "api", "measurements", "m1">>, <<>>}

RECURSIVE SumLen(_)
SumLen(groups) ==
    IF groups = <<>> THEN 0 ELSE Len(Head(groups).cellSets) + SumLen(Tail(groups))

\* One more cell-set is put at the end of the group being built.
AddCellSet ==
    /\ ~gOut.ran
    /\ Len(gGroups) < MaxGroups
    /\ SumLen(gGroups) + Len(gSets) < MaxCellSets
    /\ \E cs \in SampleCellSets : gSets' = Append(gSets, cs)
    /\ UNCHANGED <<gGroups, gOut, pipeVars, tVars, pVars, cVars, vVars>>

\* The group being built is closed and put at the end of the log's groups.
CloseGroup ==
    /\ ~gOut.ran
    /\ Len(gGroups) < MaxGroups
    /\ \E href \in SampleHrefs : gGroups' = Append(gGroups, Group(href, gSets))
    /\ gSets' = <<>>
    /\ UNCHANGED <<gOut, pipeVars, tVars, pVars, cVars, vVars>>

GroupsLog == RawLog("log-1", NoName, "WORKOUT", Null, gGroups)

\* transformLogs is called on the one log made of the closed groups.
TransformGroups ==
    /\ ~gOut.ran
    /\ gSets = <<>>
    /\ gOut' = Ran(transformLogs(<<GroupsLog>>, TMap))
    /\ UNCHANGED <<gGroups, gSets, pipeVars, tVars, pVars, cVars, vVars>>

GNext ==
    \/ AddCellSet
    \/ CloseGroup
    \/ TransformGroups

GSpec == Init /\ [][GNext]_vars

CellTypes == {"BARBELL_WEIGHT", "DUMBBELL_WEIGHT", "REPS", "RPE", "DISTANCE",
              "DURATION", "REST_TIMER", "NOTE"}
CellValues == {Null, "", "100", "8.5"}
Flags == {"true", "false", Null}

\* One more cell is put at the end of the cell-set.
AddCell ==
    /\ ~pOut.ran
    /\ Len(pCells) < MaxCells
    /\ \E cellType \in CellTypes, value \in CellValues :
          pCells' = Append(pCells, Cell(cellType, value))
    /\ UNCHANGED <<pOut, pipeVars, tVars, gVars, cVars, vVars>>

\* The log parseSet's cell-set is also transformed in: one group holding it
\* between two ordinary sets.
CellSetLog(cellSet) ==
    RawLog("log-1", NoName, "WORKOUT", Null,
           <<Group(<<"", "api", "measurements", "m1">>,
                   <<SquatSet, cellSet, SquatSet>>)>>)

\* parseSet is called on the cell-set, alone and from within transformLogs.
ParseSet ==
    /\ ~pOut.ran
    /\ \E isCompleted \in Flags :
          LET cellSet == CellSet(pCells, isCompleted)
          IN  pOut' = Ran([isCompleted |-> isCompleted,
                           parsed |-> parseSet(cellSet),
                           workouts |-> transformLogs(<<CellSetLog(cellSet)>>, TMap)])
    /\ UNCHANGED <<pCells, pipeVars, tVars, gVars, cVars, vVars>>

PNext ==
    \/ AddCell
    \/ ParseSet

PSpec == Init /\ [][PNext]_vars

(***************************************************************************)
(* Properties of transformLogs and parseSet.                               *)
(***************************************************************************)
\* The positions of the input logs whose logType is WORKOUT or LOG.
KeptPositions == {i \in 1..Len(tLogs) : tLogs[i].logType \in {"WORKOUT", "LOG"}}

\* C8: the workout ids transformLogs returns are exactly the reverse of the
\* input sequence restricted to the logs whose logType is WORKOUT or LOG: the
\* k-th workout is the k-th last kept log, and no other log appears.
C8_ReversedKept ==
    tOut.ran =>
        /\ Len(tOut.value) = Cardinality(KeptPositions)
        /\ \A i \in KeptPositions :
              tOut.value[Cardinality({j \in KeptPositions : j >= i})].id = tLogs[i].id
        /\ \A k \in 1..Len(tOut.value) :
              \E i \in KeptPositions : tLogs[i].id = tOut.value[k].id

\* Three logs, the middle one of another type: the output is the third, then
\* the first.
C8_Witness ==
    /\ tOut.ran
    /\ Len(tLogs) = 3
    /\ tLogs[1].logType = "WORKOUT"
    /\ tLogs[2].logType = "MEASUREMENT"
    /\ tLogs[3].logType = "LOG"
    /\ [k \in 1..Len(tOut.value) |-> tOut.value[k].id] = <<"log-3", "log-1">>

\* A cell-set decodes to a set when it holds no REST_TIMER and no NOTE cell.
Decodes(cellSet) ==
    \A i \in 1..Len(cellSet.cells) : cellSet.cells[i].cellType \notin {"REST_TIMER", "NOTE"}

\* The positions of a group's cell-sets that decode, those among them that
\* count as completed (flag true or absent) and those that count as skipped.
DecodedIn(group) == {i \in 1..Len(group.cellSets) : Decodes(group.cellSets[i])}
CompletedIn(group) ==
    {i \in DecodedIn(group) : group.cellSets[i].isCompleted \in {"true", Null}}
SkippedIn(group) ==
    {i \in DecodedIn(group) : group.cellSets[i].isCompleted = "false"}

\* The groups that yield an exercise, and the exercise's place in the output.
YieldingGroups == {g \in 1..Len(gGroups) : DecodedIn(gGroups[g]) # {}}
PlaceOf(g) == Cardinality({h \in YieldingGroups : h <= g})
Rank(i, positions) == Cardinality({j \in positions : j <= i})

\* C9: each cell-set of a group that decodes to a set lands in exactly one of
\* the exercise's two sequences, completedSets when its flag is true or
\* absent and skippedSets when it is false, and each sequence keeps the order
\* the cell-sets had in the group.
C9_Partition ==
    gOut.ran =>
        /\ Len(gOut.value[1].exercises) = Cardinality(YieldingGroups)
        /\ \A g \in YieldingGroups :
            LET group == gGroups[g]
                exercise == gOut.value[1].exercises[PlaceOf(g)]
            IN  /\ Len(exercise.completedSets) = Cardinality(CompletedIn(group))
                /\ Len(exercise.skippedSets) = Cardinality(SkippedIn(group))
                /\ \A i \in CompletedIn(group) :
                      exercise.completedSets[Rank(i, CompletedIn(group))]
                          = parseSet(group.cellSets[i]).set
                /\ \A i \in SkippedIn(group) :
                      exercise.skippedSets[Rank(i, SkippedIn(group))]
                          = parseSet(group.cellSets[i]).set

\* A group of a skipped set between an unflagged and a completed one.
C9_Witness ==
    /\ gOut.ran
    /\ Len(gGroups) = 1
    /\ gGroups[1].cellSets = <<UnflaggedSet, SkippedSet, CompletedSet>>
    /\ gOut.value[1].exercises[1].completedSets
          = <<parseSet(UnflaggedSet).set, parseSet(CompletedSet).set>>
    /\ gOut.value[1].exercises[1].skippedSets = <<parseSet(SkippedSet).set>>

HoldsMarker == \E i \in 1..Len(pCells) : pCells[i].cellType \in {"REST_TIMER", "NOTE"}

\* All sets of the exercises of a workout.
RECURSIVE SetsOf(_)
SetsOf(exercises) ==
    IF exercises = <<>> THEN <<>>
    ELSE Head(exercises).completedSets \o Head(exercises).skippedSets
         \o SetsOf(Tail(exercises))

\* C10: parseSet returns null for every cell-set holding at least one
\* REST_TIMER or NOTE cell, whatever its other cells and its completed flag,
\* and transformLogs makes no WorkoutSet of such a cell-set: of the group's
\* three cell-sets only the two ordinary ones yield sets.
C10_MarkerIsNoSet ==
    (pOut.ran /\ HoldsMarker) =>
        /\ pOut.value.parsed = NullV
        /\ SetsOf(pOut.value.workouts[1].exercises)
              = <<parseSet(SquatSet).set, parseSet(SquatSet).set>>

\* A cell-set of a weight and a note, flagged completed, was parsed.
C10_Witness ==
    /\ pOut.ran
    /\ pCells = <<Cell("BARBELL_WEIGHT", "100"), Cell("NOTE", "8.5")>>
    /\ pOut.value.isCompleted = "true"
    /\ pOut.value.parsed = NullV

(***************************************************************************)
(* Properties of parseSet's fields.                                        *)
(***************************************************************************)
\* The first cell of the parsed cell-set whose type is one of the given ones.
FirstCell(types) ==
    LET at == {i \in 1..Len(pCells) : pCells[i].cellType \in types}
    IN  IF at = {} THEN NullV
        ELSE pCells[CHOOSE i \in at : \A j \in at : i <= j]

\* There is no such cell, or its value is absent or the empty string.
NoValue(types) ==
    FirstCell(types) = NullV \/ FirstCell(types).value \in {Null, ""}

\* C11: each of the five fields of the WorkoutSet is taken from the first
\* cell whose type is accepted for it, and is null when there is no such
\* cell or its value is absent or the empty string; duration is treated like
\* the four numeric fields.
C11_FieldsFromFirstCell ==
    (pOut.ran /\ ~HoldsMarker) =>
        LET set == pOut.value.parsed.set
        IN  /\ set.weightKg = IF NoValue(WEIGHT_CELL_TYPES) THEN NullV
                              ELSE parseFloat(FirstCell(WEIGHT_CELL_TYPES).value)
            /\ set.reps = IF NoValue({"REPS"}) THEN NullV
                          ELSE parseInt(FirstCell({"REPS"}).value)
            /\ set.rpe = IF NoValue({"RPE"}) THEN NullV
                         ELSE parseFloat(FirstCell({"RPE"}).value)
            /\ set.distance = IF NoValue({"DISTANCE"}) THEN NullV
                              ELSE parseFloat(FirstCell({"DISTANCE"}).value)
            /\ set.duration = IF NoValue({"DURATION"}) THEN Null
                              ELSE FirstCell({"DURATION"}).value

(***************************************************************************)
(* Properties of the workout's name.                                       *)
(***************************************************************************)
\* The workout transformLogs made of the i-th input log (a kept one).
WorkoutOf(i) == tOut.value[Cardinality({j \in KeptPositions : j >= i})]

\* C12: the Workout made of a raw log that carries both an en name and a
\* custom name is named with the custom name.
C12_CustomNameWins ==
    tOut.ran =>
        \A i \in KeptPositions :
            (tLogs[i].name.en # Null /\ tLogs[i].name.custom # Null)
                => WorkoutOf(i).name = tLogs[i].name.custom

(***************************************************************************)
(* Properties of the error kinds (specification Spec).                     *)
(***************************************************************************)
\* The login request was answered, and the answer is a bad status or a
\* response that is not a well-formed login response.
AuthCause(r) == r.kind = "http" /\ ~LoginSucceeded(r)

\* C13 as stated: a failed export carries a StrongAuthError only when the
\* login request was answered with a non-200 status or a malformed response;
\* every other failure, a transport error on any request included, is a
\* StrongApiError.
C13_ErrorKindByCause ==
    pc = "failed" =>
        error.tag = IF AuthCause(responses[1].resp)
                    THEN "StrongAuthError" ELSE "StrongApiError"

\* C13, amended: the error kind follows the request that failed.  Every
\* failure of the login request, a transport error and an unreadable body
\* included, is a StrongAuthError; every failure of a measurement or log
\* request that fails the export is a StrongApiError.
C13_ErrorKindByRequest ==
    pc = "failed" =>
        /\ error.tag \in {"StrongAuthError", "StrongApiError"}
        /\ error.tag = "StrongAuthError" <=> Last(responses).req = LoginRequest
        /\ error.tag = "StrongApiError"
              <=> Last(responses).req.kind \in {"measurements", "logs"}
        /\ Last(responses).req = LoginRequest => ~LoginSucceeded(Last(responses).resp)
        /\ Last(responses).req.kind \in {"measurements", "logs"}
              => (IsBroken(Last(responses).resp) \/ IsBadStatus(Last(responses).resp))

\* The login request failed in transport and the export failed with a
\* StrongAuthError.
C13_Witness ==
    /\ pc = "failed"
    /\ responses = <<Exchange(LoginRequest, Transport)>>
    /\ error.tag = "StrongAuthError"
    /\ error.cause = RequestError

(***************************************************************************)
(* Properties of malformed log pages (specification Spec).                 *)
(***************************************************************************)
\* A log deviates from the RawLog/CellSetGroup/CellSet model.
Deviates(log) ==
    \E g \in 1..Len(log.cellSetGroup) :
        \/ "cellSets" \notin DOMAIN log.cellSetGroup[g]
        \/ \E s \in 1..Len(log.cellSetGroup[g].cellSets) :
               "cells" \notin DOMAIN log.cellSetGroup[g].cellSets[s]

\* A log page was answered 200 with a log that deviates from the model.
DeviatingPage ==
    \E k \in 1..Len(LogExchanges) :
        \E i \in 1..Len(BatchOfPage(LogExchanges[k])) :
            Deviates(BatchOfPage(LogExchanges[k])[i])

\* C14: a 200 log page that deviates from the data model fails the log fetch
\* with a StrongApiError and never reaches the transformer; the export never
\* ends outside Done and Failed, and it fails only while authenticating or
\* fetching.
C14_MalformedPageFailsFetch ==
    /\ DeviatingPage =>
          /\ lState = "failed"
          /\ pc = "failed"
          /\ error.tag = "StrongApiError"
          /\ ~transformed
    /\ pc \in {"idle", "login", "fetching", "done", "failed"}
    /\ pc = "failed" => ~transformed

(***************************************************************************)
(* Dates.  A Date is the number of its UTC day, counted from 2026-01-01,   *)
(* and the milliseconds into that day; or it is the invalid date.          *)
(***************************************************************************)
DayMs == 86400000
DefaultRangeDays == 30

InvalidDate == [invalid |-> TRUE]
Date(day, ms) == [day |-> day, ms |-> ms]
IsValidDate(d) == "day" \in DOMAIN d

\* new Date(s) on the strings the model uses: a date alone is midnight UTC.
newDate(s) ==
    CASE s = "2026-01-01" -> Date(0, 0)
      [] s = "2026-01-02" -> Date(1, 0)
      [] s = "2026-01-01T10:00:00Z" -> Date(0, 36000000)
      [] s = "2026-01-02T10:00:00Z" -> Date(1, 36000000)
      [] s = "2026-01-02T23:59:59.999Z" -> Date(1, DayMs - 1)
      [] s = "2026-01-03T00:00:00Z" -> Date(2, 0)
      [] s = "2026-01-03T10:00:00Z" -> Date(2, 36000000)
      [] OTHER -> InvalidDate

\* d.setUTCHours(23, 59, 59, 999)
setUTCHours(d) == IF IsValidDate(d) THEN Date(d.day, DayMs - 1) ELSE d

\* new Date(d.getTime() - days * 24 * 60 * 60 * 1000)
minusDays(d, days) == IF IsValidDate(d) THEN Date(d.day - days, d.ms) ELSE d

\* a >= b and a <= b on Dates compare the time values; a comparison with
\* the invalid date (NaN) is false.
dateGeq(a, b) ==
    /\ IsValidDate(a)
    /\ IsValidDate(b)
    /\ (a.day > b.day \/ (a.day = b.day /\ a.ms >= b.ms))
dateLeq(a, b) == dateGeq(b, a)

(***************************************************************************)
(* filterByDateRange                                                       *)
(***************************************************************************)
\* filterByDateRange with both comparisons strict.
filterByDateRangeStrict(workouts, from, to) ==
    LET Keep(w) ==
            IF ~truthy(w.startDate) THEN FALSE
            ELSE LET d == newDate(w.startDate)
                 IN  dateGeq(d, from) /\ dateLeq(d, to) /\ d # from /\ d # to
    IN  SelectSeq(workouts, Keep)

filterByDateRange(workouts, from, to) ==
    LET Keep(w) ==
            IF ~truthy(w.startDate) THEN FALSE
            ELSE LET d == newDate(w.startDate)
                 IN  dateGeq(d, from) /\ dateLeq(d, to)
    IN  SelectSeq(workouts, Keep)

(***************************************************************************)
(* exportCommand, from the value exportWorkouts returned to the value it   *)
(* serializes.                                                             *)
(***************************************************************************)
None == [some |-> FALSE]
Some(v) == [some |-> TRUE, value |-> v]

\* exportCommandData leaving the count of the unfiltered export in place.
exportCommandDataStale(raw, from, to, now) ==
    LET fromDate == IF from.some THEN newDate(from.value)
                    ELSE minusDays(now, DefaultRangeDays)
        toDate == IF to.some THEN setUTCHours(newDate(to.value)) ELSE now
        filteredWorkouts == filterByDateRange(raw.workouts, fromDate, toDate)
    IN  [fromDate |-> fromDate, toDate |-> toDate,
         data |-> [exportedAt |-> raw.exportedAt,
                   totalWorkouts |-> raw.totalWorkouts,
                   workouts |-> filteredWorkouts]]

\* fromDate, toDate and data = { ...raw, totalWorkouts, workouts }
exportCommandData(raw, from, to, now) ==
    LET fromDate == IF from.some THEN newDate(from.value)
                    ELSE minusDays(now, DefaultRangeDays)
        toDate == IF to.some THEN setUTCHours(newDate(to.value)) ELSE now
        filteredWorkouts == filterByDateRange(raw.workouts, fromDate, toDate)
    IN  [fromDate |-> fromDate, toDate |-> toDate,
         data |-> [exportedAt |-> raw.exportedAt,
                   totalWorkouts |-> Len(filteredWorkouts),
                   workouts |-> filteredWorkouts]]

\* The inputs of the command: the start dates of the account's logs, the
\* --from and --to options, and the time of the run.
StartDates ==
    {Null, "", "2026-01-01T10:00:00Z", "2026-01-02T10:00:00Z",
     "2026-01-02T23:59:59.999Z", "2026-01-03T00:00:00Z", "yesterday"}
FromOptions == {None, Some("2026-01-01"), Some("2026-01-02T10:00:00Z"), Some("soon")}
ToOptions == {None, Some("2026-01-01"), Some("2026-01-02")}
Nows == {Date(2, 43200000)}

\* One more log is in the account.
AddCommandLog ==
    /\ ~cOut.ran
    /\ Len(cLogs) < MaxLogs
    /\ \E startDate \in StartDates :
          cLogs' = Append(cLogs, RawLog(Ids[Len(cLogs) + 1], NoName, "WORKOUT",
                                        startDate, <<SquatGroup>>))
    /\ UNCHANGED <<cOut, pipeVars, tVars, gVars, pVars, vVars>>

\* exportWorkouts has returned raw, the export of the account's logs; the
\* command filters it by the date range and makes the value it serializes.
ExportCommand ==
    /\ ~cOut.ran
    /\ \E from \in FromOptions, to \in ToOptions, now \in Nows :
          LET raw == exportData(transformLogs(cLogs, TMap))
              out == exportCommandData(raw, from, to, now)
          IN  cOut' = Ran([raw |-> raw, from |-> from, to |-> to,
                           fromDate |-> out.fromDate, toDate |-> out.toDate,
                           data |-> out.data])
    /\ UNCHANGED <<cLogs, pipeVars, tVars, gVars, pVars, vVars>>

CNext ==
    \/ AddCommandLog
    \/ ExportCommand

CSpec == Init /\ [][CNext]_vars

(***************************************************************************)
(* Properties of the export command and filterByDateRange (CSpec).         *)
(***************************************************************************)
\* C15: totalWorkouts equals the length of the workouts sequence, in the
\* ExportData exportWorkouts returns and in the one the export command
\* serializes after the date-range filter.
C15_TotalIsLength ==
    cOut.ran =>
        /\ cOut.value.raw.totalWorkouts = Len(cOut.value.raw.workouts)
        /\ cOut.value.data.totalWorkouts = Len(cOut.value.data.workouts)

\* Three workouts were exported and the filter kept one of them.
C15_Witness ==
    /\ cOut.ran
    /\ cOut.value.raw.totalWorkouts = 3
    /\ Len(cOut.value.data.workouts) = 1
    /\ cOut.value.data.totalWorkouts = 1

(***************************************************************************)
(* Properties of the exercises of a workout (specification GSpec).         *)
(***************************************************************************)
\* The name the exercise of a group carries under TMap.
NameOfGroup(group) == IF group.href = <<>> THEN "Unknown" ELSE "Squat (Barbell)"

\* C16: no exercise returned by transformLogs has zero completed and zero
\* skipped sets: a group whose cell-sets all are no set, or that has none,
\* is dropped; the workout of the log is emitted all the same, with no
\* exercise at all when every group is dropped; and the exercises that
\* remain are those of the other groups, in the groups' order.
C16_NoEmptyExercise ==
    gOut.ran =>
        /\ Len(gOut.value) = 1
        /\ gOut.value[1].id = GroupsLog.id
        /\ \A k \in 1..Len(gOut.value[1].exercises) :
              Len(gOut.value[1].exercises[k].completedSets)
                  + Len(gOut.value[1].exercises[k].skippedSets) > 0
        /\ Len(gOut.value[1].exercises) = Cardinality(YieldingGroups)
        /\ \A g \in YieldingGroups :
              LET exercise == gOut.value[1].exercises[PlaceOf(g)]
              IN  /\ exercise.name = NameOfGroup(gGroups[g])
                  /\ Len(exercise.completedSets) + Len(exercise.skippedSets)
                        = Cardinality(DecodedIn(gGroups[g]))

\* The first group held a rest timer and a noted set only, the second a
\* skipped set: the workout has the second group's exercise alone.
C16_Witness ==
    /\ gOut.ran
    /\ Len(gGroups) = 2
    /\ gGroups[1].cellSets = <<RestSet, NotedSet>>
    /\ gGroups[2].cellSets = <<SkippedSet>>
    /\ gGroups[2].href = <<>>
    /\ Len(gOut.value) = 1
    /\ gOut.value[1].exercises
          = <<[name |-> "Unknown", completedSets |-> <<>>,
               skippedSets |-> <<parseSet(SkippedSet).set>>]>>

\* A workout has a start timestamp: its startDate is present and denotes an
\* instant.
HasStart(w) == w.startDate \notin {Null, ""} /\ IsValidDate(newDate(w.startDate))

\* The instant a is not after the instant b.
NotAfter(a, b) == a.day < b.day \/ (a.day = b.day /\ a.ms <= b.ms)

\* The workout's start timestamp t satisfies from <= t <= to.
InRange(w, from, to) ==
    /\ HasStart(w)
    /\ IsValidDate(from)
    /\ IsValidDate(to)
    /\ NotAfter(from, newDate(w.startDate))
    /\ NotAfter(newDate(w.startDate), to)

\* The positions of the workouts the range keeps.
KeptByRange ==
    {i \in 1..Len(cOut.value.raw.workouts) :
        InRange(cOut.value.raw.workouts[i], cOut.value.fromDate, cOut.value.toDate)}

\* C17: filterByDateRange keeps a workout exactly when it has a start
\* timestamp t with from <= t <= to, both bounds included; a workout without
\* a start timestamp is excluded; the kept workouts are in input order and
\* unchanged.
C17_FilterByDateRange ==
    cOut.ran =>
        /\ Len(cOut.value.data.workouts) = Cardinality(KeptByRange)
        /\ \A i \in KeptByRange :
              cOut.value.data.workouts[Rank(i, KeptByRange)] = cOut.value.raw.workouts[i]
        /\ \A k \in 1..Len(cOut.value.data.workouts) :
              HasStart(cOut.value.data.workouts[k])

\* Of three workouts, the one starting exactly at from and the one starting
\* exactly at to are kept, in that order; the one without a start is not.
C17_Witness ==
    /\ cOut.ran
    /\ cOut.value.fromDate = Date(1, 36000000)
    /\ cOut.value.toDate = Date(1, DayMs - 1)
    /\ [i \in 1..Len(cOut.value.raw.workouts) |-> cOut.value.raw.workouts[i].startDate]
          = <<"2026-01-02T10:00:00Z", Null, "2026-01-02T23:59:59.999Z">>
    /\ cOut.value.data.workouts
          = <<cOut.value.raw.workouts[1], cOut.value.raw.workouts[3]>>

(***************************************************************************)
(* toCSV.  A line is the sequence of its fields, which join(",") puts      *)
(* together; the result is the sequence of the lines join("\n") puts       *)
(* together.                                                               *)
(***************************************************************************)
CsvHeader ==
    <<"date", "workoutName", "exerciseName", "setNumber", "weightKg", "reps",
      "rpe", "distance", "duration", "status">>

\* s.replace(/"/g, '""') on the names the model uses
escapeQuotes(s) ==
    CASE s = "The \"Big\" Day" -> "The \"\"Big\"\" Day"
      [] OTHER -> s

\* `"${s.replace(/"/g, '""')}"`
quoted(s) == "\"" \o escapeQuotes(s) \o "\""

\* A number as join renders it.
numberToString(n) ==
    CASE n = Num(1000) -> "100"
      [] n = Num(1100) -> "110"
      [] n = Num(50) -> "5"
      [] n = Num(85) -> "8.5"
      [] n = Num(80) -> "8"
      [] n = Num(600) -> "60"
      [] n = Num(0) -> "0"
      [] OTHER -> "NaN"

\* v ?? "" on a number-or-null and on a string-or-null
numberOrEmpty(v) == IF v = NullV THEN "" ELSE numberToString(v)
stringOrEmpty(v) == IF v = Null THEN "" ELSE v

\* allSets with the skipped sets put first.
allSetsSkippedFirst(exercise) ==
    [i \in 1..Len(exercise.skippedSets) |->
        [set |-> exercise.skippedSets[i], status |-> "skipped"]]
    \o [i \in 1..Len(exercise.completedSets) |->
        [set |-> exercise.completedSets[i], status |-> "completed"]]

\* [...completedSets.map(status: "completed"), ...skippedSets.map(status: "skipped")]
allSets(exercise) ==
    [i \in 1..Len(exercise.completedSets) |->
        [set |-> exercise.completedSets[i], status |-> "completed"]]
    \o [i \in 1..Len(exercise.skippedSets) |->
        [set |-> exercise.skippedSets[i], status |-> "skipped"]]

\* The line pushed for the i-th entry (counted from 0) of allSets.
csvLine(workout, exercise, entry, i) ==
    <<stringOrEmpty(workout.startDate),
      quoted(stringOrEmpty(workout.name)),
      quoted(exercise.name),
      ToString(i + 1),
      numberOrEmpty(entry.set.weightKg),
      numberOrEmpty(entry.set.reps),
      numberOrEmpty(entry.set.rpe),
      numberOrEmpty(entry.set.distance),
      stringOrEmpty(entry.set.duration),
      entry.status>>

\* The lines of one exercise, and of one workout.
exerciseLines(workout, exercise) ==
    LET sets == allSets(exercise)
    IN  [k \in 1..Len(sets) |-> csvLine(workout, exercise, sets[k], k - 1)]

workoutLines(workout) ==
    Concat([e \in 1..Len(workout.exercises) |->
               exerciseLines(workout, workout.exercises[e])])

toCSV(data) ==
    <<CsvHeader>>
    \o Concat([w \in 1..Len(data.workouts) |-> workoutLines(data.workouts[w])])

(***************************************************************************)
(* toCSV on bounded inputs: VSpec builds workouts of exercises of          *)
(* completed and skipped sets and then calls toCSV.                        *)
(***************************************************************************)
LiftedSet ==
    [weightKg |-> Num(1000), reps |-> Num(50), rpe |-> NullV, distance |-> NullV,
     duration |-> Null]
RunSet ==
    [weightKg |-> NullV, reps |-> NullV, rpe |-> Num(85), distance |-> Num(50),
     duration |-> "00:30:00"]
SampleSets == <<LiftedSet, RunSet>>
ExerciseNames == <<"Squat", "Curl, Barbell", "Run", "Row", "Press">>
WorkoutHeads ==
    <<[name |-> "The \"Big\" Day", startDate |-> "2026-01-15T10:00:00Z"],
      [name |-> Null, startDate |-> Null]>>

RECURSIVE CountSets(_)
CountSets(exercises) ==
    IF exercises = <<>> THEN 0
    ELSE Len(Head(exercises).completedSets) + Len(Head(exercises).skippedSets)
         + CountSets(Tail(exercises))

RECURSIVE CountExercises(_)
CountExercises(workouts) ==
    IF workouts = <<>> THEN 0
    ELSE Len(Head(workouts).exercises) + CountExercises(Tail(workouts))

RECURSIVE CountAllSets(_)
CountAllSets(workouts) ==
    IF workouts = <<>> THEN 0
    ELSE CountSets(Head(workouts).exercises) + CountAllSets(Tail(workouts))

\* The number of sets put into the export so far.
SetsSoFar ==
    CountAllSets(vWorkouts) + CountSets(vExercises) + Len(vCompleted) + Len(vSkipped)

\* One more set is put at the end of the completed or of the skipped sets of
\* the exercise being built: the two sample sets in turn.
AddSet ==
    /\ ~vOut.ran
    /\ Len(vWorkouts) < MaxLogs
    /\ CountExercises(vWorkouts) + Len(vExercises) < MaxGroups
    /\ SetsSoFar < MaxCellSets
    /\ LET set == SampleSets[(SetsSoFar % 2) + 1]
       IN  \/ vCompleted' = Append(vCompleted, set) /\ vSkipped' = vSkipped
           \/ vSkipped' = Append(vSkipped, set) /\ vCompleted' = vCompleted
    /\ UNCHANGED <<vExercises, vWorkouts, vOut, pipeVars, tVars, gVars, pVars, cVars>>

\* The exercise being built is closed and put at the end of the workout's.
CloseExercise ==
    /\ ~vOut.ran
    /\ Len(vWorkouts) < MaxLogs
    /\ CountExercises(vWorkouts) + Len(vExercises) < MaxGroups
    /\ vExercises' = Append(vExercises,
          [name |-> ExerciseNames[CountExercises(vWorkouts) + Len(vExercises) + 1],
           completedSets |-> vCompleted, skippedSets |-> vSkipped])
    /\ vCompleted' = <<>>
    /\ vSkipped' = <<>>
    /\ UNCHANGED <<vWorkouts, vOut, pipeVars, tVars, gVars, pVars, cVars>>

\* The workout being built is closed and put at the end of the export's:
\* a named and dated workout and a nameless and undated one in turn.
CloseWorkout ==
    /\ ~vOut.ran
    /\ Len(vWorkouts) < MaxLogs
    /\ vCompleted = <<>>
    /\ vSkipped = <<>>
    /\ LET head == WorkoutHeads[(Len(vWorkouts) % 2) + 1]
       IN  vWorkouts' = Append(vWorkouts,
              [id |-> Ids[Len(vWorkouts) + 1], name |-> head.name,
               startDate |-> head.startDate, endDate |-> Null, timezone |-> Null,
               exercises |-> vExercises])
    /\ vExercises' = <<>>
    /\ UNCHANGED <<vCompleted, vSkipped, vOut, pipeVars, tVars, gVars, pVars, cVars>>

\* toCSV is called on the export of the closed workouts.
ToCSV ==
    /\ ~vOut.ran
    /\ vCompleted = <<>>
    /\ vSkipped = <<>>
    /\ vExercises = <<>>
    /\ vOut' = Ran(toCSV(exportData(vWorkouts)))
    /\ UNCHANGED <<vCompleted, vSkipped, vExercises, vWorkouts, pipeVars, tVars,
                   gVars, pVars, cVars>>

VNext ==
    \/ AddSet
    \/ CloseExercise
    \/ CloseWorkout
    \/ ToCSV

VSpec == Init /\ [][VNext]_vars

(***************************************************************************)
(* Properties of toCSV (specification VSpec).                              *)
(***************************************************************************)
Numerals == <<"1", "2", "3", "4", "5", "6">>

\* The number of lines before the first line of the e-th exercise of the
\* w-th workout: the header and one line per set of all that comes before.
LinesBefore(w, e) ==
    1 + CountAllSets(SubSeq(vWorkouts, 1, w - 1))
      + CountSets(SubSeq(vWorkouts[w].exercises, 1, e - 1))

\* The line is the one of the given set of the exercise of the workout.
LineShows(line, workout, exercise, set) ==
    /\ line[1] = (IF workout.startDate = Null THEN "" ELSE workout.startDate)
    /\ line[3] = quoted(exercise.name)
    /\ SubSeq(line, 5, 9)
          = <<numberOrEmpty(set.weightKg), numberOrEmpty(set.reps),
              numberOrEmpty(set.rpe), numberOrEmpty(set.distance),
              stringOrEmpty(set.duration)>>

\* C18: toCSV emits the header and then exactly one line per set, workout by
\* workout and exercise by exercise; within an exercise the completed sets
\* come first, then the skipped ones, with status "completed" and "skipped";
\* setNumber counts 1, 2, 3, ... over the exercise's completed-then-skipped
\* lines and starts again at 1 with every exercise.
C18_OneRowPerSet ==
    vOut.ran =>
        /\ vOut.value[1] = CsvHeader
        /\ Len(vOut.value) = 1 + CountAllSets(vWorkouts)
        /\ \A w \in 1..Len(vWorkouts) :
            \A e \in 1..Len(vWorkouts[w].exercises) :
                LET exercise == vWorkouts[w].exercises[e]
                    done == Len(exercise.completedSets)
                IN  /\ \A k \in 1..done :
                          LET line == vOut.value[LinesBefore(w, e) + k]
                          IN  /\ line[10] = "completed"
                              /\ line[4] = Numerals[k]
                              /\ LineShows(line, vWorkouts[w], exercise,
                                           exercise.completedSets[k])
                    /\ \A j \in 1..Len(exercise.skippedSets) :
                          LET line == vOut.value[LinesBefore(w, e) + done + j]
                          IN  /\ line[10] = "skipped"
                              /\ line[4] = Numerals[done + j]
                              /\ LineShows(line, vWorkouts[w], exercise,
                                           exercise.skippedSets[j])

\* One workout of two exercises: a completed and a skipped set, then a
\* completed set; the set numbers are 1, 2 and again 1.
C18_Witness ==
    /\ vOut.ran
    /\ Len(vWorkouts) = 1
    /\ Len(vWorkouts[1].exercises) = 2
    /\ vWorkouts[1].exercises[1].completedSets = <<LiftedSet>>
    /\ vWorkouts[1].exercises[1].skippedSets = <<RunSet>>
    /\ vWorkouts[1].exercises[2].completedSets = <<LiftedSet>>
    /\ [i \in 2..4 |-> <<vOut.value[i][4], vOut.value[i][10]>>]
          = [i \in 2..4 |-> <<<<"1", "2", "1">>[i - 1],
                              <<"completed", "skipped", "completed">>[i - 1]>>]

(***************************************************************************)
(* Properties of the catalog pagination (specification Spec).              *)
(***************************************************************************)
\* The requests issued to, and the exchanges completed with, one catalog
\* endpoint, in order.
RequestsTo(endpoint) ==
    LET Is(q) == q.endpoint = endpoint
    IN  SelectSeq(MeasRequests, Is)
ExchangesWith(endpoint) ==
    LET Is(x) == x.req.endpoint = endpoint
    IN  SelectSeq(MeasExchanges, Is)

\* The response is a 200 with a next-page indicator and at least one item.
HasMore(x) ==
    /\ IsGoodPage(x.resp)
    /\ x.resp.data.next
    /\ x.resp.data.embedded
    /\ x.resp.data.measurement # <<>>

\* C19: on each catalog endpoint the k-th request asks for page k - 1, so
\* the pages are 0, 1, 2, ... with none skipped or repeated; a page is
\* requested only when every earlier request of the endpoint has been
\* answered; after a 200 response the next page is requested exactly when
\* the response has a next-page indicator and a non-zero item count; and the
\* user-scoped endpoint is first requested only after the global endpoint's
\* pagination has ended.
C19_PagesInOrder ==
    /\ \A endpoint \in {"global", "user"} :
        LET reqs == RequestsTo(endpoint)
            done == ExchangesWith(endpoint)
        IN  /\ \A k \in 1..Len(reqs) : reqs[k].page = k - 1
            /\ Len(done) <= Len(reqs)
            /\ Len(reqs) <= Len(done) + 1
            /\ \A k \in 1..Len(done) : done[k].req = reqs[k]
            /\ \A k \in 1..Len(done) :
                  IF IsOk200(done[k].resp) /\ HasMore(done[k])
                  THEN \/ Len(reqs) > k
                       \/ (mState = endpoint /\ page = k /\ ~mInflight
                             /\ ENABLED MeasurementsRequest)
                  ELSE /\ Len(reqs) = k
                       /\ mState # endpoint
    /\ \A i \in 1..Len(MeasRequests) : \A j \in 1..Len(MeasRequests) :
          (i < j /\ MeasRequests[i].endpoint = "user")
              => MeasRequests[j].endpoint = "user"
    /\ RequestsTo("user") # <<>> =>
          /\ Len(ExchangesWith("global")) = Len(RequestsTo("global"))
          /\ Len(ExchangesWith("global")) >= 1
          /\ ~HasMore(Last(ExchangesWith("global")))
          /\ ~IsBroken(Last(ExchangesWith("global")).resp)

\* The global catalog was read in two pages, the first with a next link and
\* an item; the user-scoped catalog was then asked for its page 0.
C19_Witness ==
    /\ MeasRequests = <<MeasRequest("global", 0), MeasRequest("global", 1),
                        MeasRequest("user", 0)>>
    /\ Len(MeasExchanges) = 2
    /\ HasMore(MeasExchanges[1])
    /\ IsGoodPage(MeasExchanges[2].resp)
    /\ ~MeasExchanges[2].resp.data.next
    /\ mInflight

(***************************************************************************)
(* Termination of fetchWorkoutLogs (specification FairSpec).  The backend  *)
(* hands out a token on its first MaxLogPages - 1 pages at most: its chain *)
(* of continuation tokens is finite.                                       *)
(***************************************************************************)
LogFetchFinished == lState \in {"ok", "failed"}

\* Every log request has been answered, and no two requests carried the
\* same token: one request per page.
OneRequestPerPage ==
    /\ Len(LogRequests) = Len(LogExchanges)
    /\ \A k \in 1..Len(LogExchanges) : LogExchanges[k].req = LogRequests[k]
    /\ \A j \in 1..Len(LogRequests) : \A k \in 1..Len(LogRequests) :
          j # k => LogRequests[j].continuation # LogRequests[k].continuation

\* C20: when every request is eventually answered, fetchWorkoutLogs once
\* started eventually finishes, with its logs or with an error, on any
\* finite chain of continuation tokens; and when it has finished it has
\* issued exactly one request per page of the chain.
C20_LogFetchTerminates ==
    /\ [](LogFetchFinished => OneRequestPerPage)
    /\ (lState = "running") ~> LogFetchFinished

\* The fetch followed the chain to its last page, MaxLogPages requests in
\* all, and ended there.
C20_Witness ==
    /\ lState = "ok"
    /\ Len(LogRequests) = MaxLogPages
    /\ Len(LogExchanges) = MaxLogPages
    /\ \A k \in 1..(MaxLogPages - 1) : ~StopsAfter(LogExchanges[k])

====
